---- MODULE Spec2Model ----
(***************************************************************************)
(* A model of scripts/gen_syscalls.py: the system-call declaration         *)
(* scanner (api_regex), the type/name splitter (typename_split), the       *)
(* declaration analyzer (analyze_fn), the tree walker (analyze_headers)    *)
(* and the output synthesizer (main).                                      *)
(*                                                                         *)
(* Text is modelled as text: every Python str is a TLA+ string, read one   *)
(* character at a time with SubSeq, so the regular expressions, strip(),   *)
(* split(), join(), upper(), "%d" and sort() are computed, not assumed.    *)
(***************************************************************************)
EXTENDS Integers, Sequences, FiniteSets, TLC

VARIABLES
    \* ---- the analyzer on one declaration (specification SpecFn)
    decl,          \* the declaration as written: its parts and its layout
    text,          \* the header text holding the declaration
    matches,       \* list(api_regex.finditer(text)): the groups of each match
    result,        \* analyze_fn's outcome for the first match
    fpc,           \* "text" -> "matched" -> "analyzed"
    \* ---- one run of main() after another (specification Spec)
    tree,          \* the include tree in os.walk order: <<[dir, fn, text], ...>>
    pc,            \* position in main()
    run,           \* number of the current run
    idx,           \* number of files analyze_headers has visited
    syscalls,      \* analyze_headers' ret
    invocations,   \* main's dict fn -> [inv, ...], in insertion order
    ids,           \* main's ids
    table_entries, \* main's table_entries
    handlers,      \* main's handlers
    pending,       \* invocations.items() not yet iterated by the last loop
    dispatch,      \* the file at args.syscall_dispatch: [exists, data]
    stdout,        \* what this run wrote to sys.stdout
    stderr,        \* what this run wrote to sys.stderr
    outdir,        \* whether args.base_output exists
    outfiles,      \* the files of args.base_output: fn -> [exists, data]
    opened,        \* whether this run opened the dispatch file for writing
    madedirs,      \* whether this run called os.makedirs
    written,       \* the headers this run opened for writing
    before         \* the file system when this run started

fnvars == <<decl, text, matches, result, fpc>>
mainvars == <<tree, pc, run, idx, syscalls, invocations, ids, table_entries,
              handlers, pending, dispatch, stdout, stderr, outdir, outfiles,
              opened, madedirs, written, before>>
vars == <<fnvars, mainvars>>

(***************************************************************************)
(* Bounds of the model.                                                    *)
(***************************************************************************)
MaxArgs == 2
MaxFiles == 2
MaxRuns == 2
MaxArity == 11

(***************************************************************************)
(* Python's str operations, character by character.                        *)
(*                                                                         *)
(* A value that is used more than once is bound to a name as the element   *)
(* of a one-element set, Only({ ... x ... : x \in {value}}), so that it is *)
(* computed once.                                                          *)
(***************************************************************************)
\* the one element of a one-element set
Only(S) == CHOOSE x \in S : TRUE

\* the least element of a set of indices, 0 for the empty set
Least(S) == IF S = {} THEN 0 ELSE CHOOSE i \in S : \A j \in S : i <= j

\* the greatest element of a set of indices, 0 for the empty set
Greatest(S) == IF S = {} THEN 0 ELSE CHOOSE i \in S : \A j \in S : j <= i

\* s[a-1:b], the characters from the a-th to the b-th: like a Python slice, it
\* stops at the end of s
Slice(s, a, b) ==
    IF a > b \/ a > Len(s) \/ b < 1 THEN ""
    ELSE SubSeq(s, IF a < 1 THEN 1 ELSE a, IF b > Len(s) THEN Len(s) ELSE b)

Char(s, i) == Slice(s, i, i)

\* c in s, for a one-character c
Contains(s, c) == \E i \in 1..Len(s) : Char(s, i) = c

\* s.endswith(t)
EndsWith(s, t) ==
    /\ Len(s) >= Len(t)
    /\ Slice(s, Len(s) - Len(t) + 1, Len(s)) = t

\* the characters of [A-Za-z0-9_]
UpperLetters == "ABCDEFGHIJKLMNOPQRSTUVWXYZ"
LowerLetters == "abcdefghijklmnopqrstuvwxyz"
Digits == "0123456789"
IdentChars ==
    {Char(UpperLetters, i) : i \in 1..Len(UpperLetters)}
    \cup {Char(LowerLetters, i) : i \in 1..Len(LowerLetters)}
    \cup {Char(Digits, i) : i \in 1..Len(Digits)}
    \cup {"_"}

\* the characters \s matches and strip() removes (those a TLA+ string can hold)
Whitespace == {" ", "\t", "\n", "\r", "\f"}

\* s.strip()
strip(s) ==
    Only({Slice(s, Least(keep), Greatest(keep)) :
             keep \in {{i \in 1..Len(s) : Char(s, i) \notin Whitespace}}})

\* s.find(t) + 1 searching from index `from`; 0 when t is not there
Find(s, t, from) ==
    Least({i \in from..(Len(s) - Len(t) + 1) : Slice(s, i, i + Len(t) - 1) = t})

\* s.split(sep): from[i] is the list of the pieces of s[i-1:]
split(s, sep) ==
    LET from[i \in 1..(Len(s) + 1)] ==
            Only({IF j = 0 THEN <<Slice(s, i, Len(s))>>
                  ELSE <<Slice(s, i, j - 1)>> \o from[j + Len(sep)] :
                     j \in {Find(s, sep, i)}})
    IN  from[1]

\* sep.join(parts): upto[i] joins the first i parts
join(sep, parts) ==
    LET upto[i \in 0..Len(parts)] ==
            IF i = 0 THEN ""
            ELSE (IF i = 1 THEN "" ELSE upto[i - 1] \o sep) \o parts[i]
    IN  upto[Len(parts)]

\* c.upper() for one character
UpperChar(c) ==
    Only({IF i = 0 THEN c ELSE Char(UpperLetters, i) : i \in {Find(LowerLetters, c, 1)}})

\* s.upper(): upto[i] is the first i characters in upper case
upper(s) ==
    LET upto[i \in 0..Len(s)] ==
            IF i = 0 THEN "" ELSE upto[i - 1] \o UpperChar(Char(s, i))
    IN  upto[Len(s)]

\* "%d" % n, for n >= 0
RECURSIVE FormatInt(_)
FormatInt(n) ==
    (IF n < 10 THEN "" ELSE FormatInt(n \div 10)) \o Char(Digits, (n % 10) + 1)

\* the printable ASCII characters in code point order (the grave accent left out)
AsciiOrder ==
    " !\"#$%&'()*+,-./0123456789:;<=>?@ABCDEFGHIJKLMNOPQRSTUVWXYZ[\\]^_abcdefghijklmnopqrstuvwxyz{|}~"

\* the rank of ord(c): Ord(c) < Ord(d) exactly when ord(c) < ord(d)
Ord(c) == Find(AsciiOrder, c, 1)

\* a < b for Python strings: the first place where they differ decides, by
\* code point, and a proper prefix comes first
StrLess(a, b) ==
    \E k \in 1..Len(b) :
        /\ Len(a) >= k - 1
        /\ Slice(a, 1, k - 1) = Slice(b, 1, k - 1)
        /\ \/ Len(a) = k - 1
           \/ Ord(Char(a, k)) < Ord(Char(b, k))

\* list.sort() on strings: ascending, equal elements in their old order
sort(s) ==
    LET place(i) == 1 + Cardinality({j \in 1..Len(s) :
                                       StrLess(s[j], s[i]) \/ (s[j] = s[i] /\ j < i)})
    IN  [k \in 1..Len(s) |-> s[CHOOSE i \in 1..Len(s) : place(i) = k]]

(***************************************************************************)
(* api_regex: "__", then syscall or syscall_inline, then white space, then *)
(* the type and name (no opening parenthesis in it), then the argument     *)
(* list between the first "(" and the first ")" after it.                  *)
(***************************************************************************)
NoMatch == [ok |-> FALSE, end |-> 0, groups |-> <<>>]

\* the white space characters in a row from index j on: the most the white
\* space of the pattern can take
WhiteRun(s, j) ==
    Cardinality({k \in j..Len(s) : \A m \in j..k : Char(s, m) \in Whitespace})

\* the match once the white space run w, the first "(" at p and the first ")"
\* after it at q are known (0: none). Group 2 ends before the first "("; the
\* white space gives one character back when group 2 would be empty.
ApiGroups(s, variant, j, w, p, q) ==
    IF w = 0 \/ p = 0 \/ q = 0 THEN NoMatch
    ELSE IF p = j + w /\ w < 2 THEN NoMatch
    ELSE [ok |-> TRUE, end |-> q,
          groups |-> <<variant,
                       Slice(s, IF p = j + w THEN p - 1 ELSE j + w, p - 1),
                       Slice(s, p + 1, q - 1)>>]

\* the pattern's rest at index j, after the annotation `variant`
ApiRest(s, variant, j) ==
    Only({ApiGroups(s, variant, j, WhiteRun(s, j), p, IF p = 0 THEN 0 ELSE Find(s, ")", p + 1)) :
             p \in {Find(s, "(", j)}})

\* api_regex.match(s, i - 1): the alternatives in the order written
ApiMatchAt(s, i) ==
    IF Slice(s, i, i + 8) # "__syscall" THEN NoMatch
    ELSE Only({IF first.ok THEN first
               ELSE IF Slice(s, i + 9, i + 15) = "_inline"
                    THEN ApiRest(s, "syscall_inline", i + 16)
               ELSE NoMatch :
                  first \in {ApiRest(s, "syscall", i + 9)}})

\* [mo.groups() for mo in api_regex.finditer(s)]: from[i] is the list of the
\* matches found from index i on, each search starting where the last ended
finditer(s) ==
    LET from[i \in 1..(Len(s) + 1)] ==
            Only({IF ~mo.ok THEN <<>> ELSE <<mo.groups>> \o from[mo.end + 1] :
                     mo \in {ApiMatchAt(s, Least({k \in i..Len(s) : ApiMatchAt(s, k).ok}))}})
    IN  from[1]

(***************************************************************************)
(* typename_regex, used with match(): a shortest prefix, then a run of     *)
(* identifier characters that ends at "$".                                 *)
(***************************************************************************)
\* "$" is the end of the text, or the place before a line break that ends it
DollarAt(s) == IF s # "" /\ Char(s, Len(s)) = "\n" THEN Len(s) - 1 ELSE Len(s)

\* the length of the prefix group 1 takes, when "$" is at e: the identifier
\* run is the longest one that ends there
TypenamePrefix(s, e) ==
    Least({k \in 1..(e + 1) : \A m \in k..e : Char(s, m) \in IdentChars}) - 1

\* whether the pattern matches: the run is not empty, and the prefix has no
\* line break, which "." does not take
TypenameMatches(s, k, e) == k < e /\ ~Contains(Slice(s, 1, k), "\n")

ArrayMessage(item) ==
    "Please pass arrays to syscalls as pointers, unable to process '" \o item \o "'"
FunctionPointerMessage == "Please use typedefs for function pointers"
MalformedMessage == "Malformed system call invocation"

Raise(message) == [ok |-> FALSE, error |-> message]

\* typename_split without its first test: an array falls through to the pattern
typename_split_NoArrayTest(item) ==
    IF Contains(item, "(") THEN Raise(FunctionPointerMessage)
    ELSE Only({IF ~TypenameMatches(item, k, e) THEN Raise(MalformedMessage)
               ELSE [ok |-> TRUE, type |-> strip(Slice(item, 1, k)),
                     name |-> Slice(item, k + 1, e)] :
                  e \in {DollarAt(item)}, k \in {TypenamePrefix(item, DollarAt(item))}})

typename_split(item) ==
    IF Contains(item, "[") THEN Raise(ArrayMessage(item))
    ELSE IF Contains(item, "(") THEN Raise(FunctionPointerMessage)
    ELSE Only({IF ~TypenameMatches(item, k, e) THEN Raise(MalformedMessage)
               ELSE [ok |-> TRUE, type |-> strip(Slice(item, 1, k)),
                     name |-> Slice(item, k + 1, e)] :
                  e \in {DollarAt(item)}, k \in {TypenamePrefix(item, DollarAt(item))}})

(***************************************************************************)
(* analyze_fn                                                              *)
(***************************************************************************)
\* a list comprehension whose elements may raise: the elements before the
\* first one that raises, and that one
UpToFirstFailure(outcomes) ==
    Only({IF first = 0 THEN outcomes ELSE SubSeq(outcomes, 1, first) :
             first \in {Least({i \in 1..Len(outcomes) : ~outcomes[i].ok})}})

\* [typename_split(a.strip()) for a in args.split(",")]
SplitEach(items) ==
    Only({UpToFirstFailure(outcomes) :
             outcomes \in {[i \in 1..Len(items) |-> typename_split(strip(items[i]))]}})

\* [i for sublist in args for i in sublist]
Flatten(pairs) ==
    [i \in 1..(2 * Len(pairs)) |->
        IF i % 2 = 1 THEN pairs[(i + 1) \div 2].type ELSE pairs[i \div 2].name]

\* the macro name without the "_VOID" part
MacroName_NoVoid(nargs, is_void, variant) ==
    "K_SYSCALL_DECLARE" \o FormatInt(nargs)
        \o (IF variant = "syscall_inline" THEN "_INLINE" ELSE "")

\* "K_SYSCALL_DECLARE%d%s%s" % (len(args), "_VOID" if ..., "_INLINE" if ...)
MacroName(nargs, is_void, variant) ==
    "K_SYSCALL_DECLARE" \o FormatInt(nargs)
        \o (IF is_void THEN "_VOID" ELSE "")
        \o (IF variant = "syscall_inline" THEN "_INLINE" ELSE "")

\* flat_args with the return type prepended whatever it is
FlatArgs_AlwaysType(sys_id, func_name, func_type, is_void, args) ==
    <<sys_id, func_name>> \o <<func_type>> \o Flatten(args)

\* flat_args, from the flattening of args to the last assignment
FlatArgs(sys_id, func_name, func_type, is_void, args) ==
    <<sys_id, func_name>> \o (IF is_void THEN <<>> ELSE <<func_type>>) \o Flatten(args)

\* the exception analyze_fn lets through, after its line on stderr
Reraise(failure, func) ==
    [ok |-> FALSE, error |-> failure.error,
     stderr |-> "In declaration of " \o func \o "\n"]

\* the tuple returned, with the locals it was made from
Record(fn, variant, func_type, func_name, args, sys_id, is_void, macro, flat_args) ==
    [ok |-> TRUE,
     fn |-> fn,
     handler |-> "_handler_" \o func_name,
     invocation |-> macro \o "(" \o join(", ", flat_args) \o ");",
     sys_id |-> sys_id,
     table_entry |-> "[" \o sys_id \o "] = " \o "_handler_" \o func_name,
     variant |-> variant, func_type |-> func_type, func_name |-> func_name,
     args |-> args, is_void |-> is_void, macro |-> macro, flat_args |-> flat_args]

\* the statements after the try block
Derive(variant, func_type, func_name, args, fn) ==
    Only({Record(fn, variant, func_type, func_name, args, sys_id, is_void,
                 MacroName(Len(args), is_void, variant),
                 FlatArgs(sys_id, func_name, func_type, is_void, args)) :
             sys_id \in {"K_SYSCALL_" \o upper(func_name)},
             is_void \in {func_type = "void"}})

\* the argument list of the try block
ParseArgs(args) ==
    IF args = "void" THEN <<>> ELSE SplitEach(split(args, ","))

\* what the try block leaves: the exception of the first argument that
\* raises, else that of the return type and name, else the record
Outcome(variant, func, args, head, fn) ==
    IF args # <<>> /\ ~args[Len(args)].ok THEN Reraise(args[Len(args)], func)
    ELSE IF ~head.ok THEN Reraise(head, func)
    ELSE Derive(variant, head.type, head.name,
                [i \in 1..Len(args) |-> [type |-> args[i].type, name |-> args[i].name]],
                fn)

analyze_fn(match_group, fn) ==
    Only({Outcome(match_group[1], match_group[2], args, head, fn) :
             args \in {ParseArgs(match_group[3])},
             head \in {typename_split(match_group[2])}})

(***************************************************************************)
(* The declarations the analyzer is run on: an annotation, a return type,  *)
(* a name and an argument list, written out with some layout.              *)
(***************************************************************************)
Variants == {"syscall", "syscall_inline"}
RetTypes == {"int", "void", "char *"}
\* a function name, and the same name in upper case
FuncNames == {[name |-> "bar", upper |-> "BAR"],
              [name |-> "k_sem2", upper |-> "K_SEM2"]}
\* the white space after the annotation, after the return type and after the name
SingleLine == [s1 |-> " ", s2 |-> " ", s3 |-> ""]
Layouts == {SingleLine,
            [s1 |-> "\n", s2 |-> " ", s3 |-> ""],
            [s1 |-> " ", s2 |-> "\n", s3 |-> ""],
            [s1 |-> " ", s2 |-> " ", s3 |-> " "],
            [s1 |-> " ", s2 |-> " ", s3 |-> "\n"],
            [s1 |-> "  ", s2 |-> "  ", s3 |-> ""]}
\* an argument as written: a type and what follows it
Frags == {[t |-> "int", p |-> "a"],
          [t |-> "void *", p |-> "b"],
          [t |-> "int", p |-> "a[5]"],
          [t |-> "int", p |-> "(*cb)(int)"],
          [t |-> "int *", p |-> ""],
          [t |-> "int\n", p |-> "a"]}
\* an argument list without arguments, as written between the parentheses
VoidForms == {"void", " void ", "\nvoid\n", ""}

RenderFrag(f) ==
    f.t \o (IF f.p = "" \/ EndsWith(f.t, "*") \/ EndsWith(f.t, "\n") THEN "" ELSE " ") \o f.p

ArgText(d) ==
    IF d.form = "list" THEN join(", ", [i \in 1..Len(d.frags) |-> RenderFrag(d.frags[i])])
    ELSE d.form

DeclText(d) ==
    "__" \o d.variant \o d.layout.s1 \o d.ret \o d.layout.s2 \o d.func.name
         \o d.layout.s3 \o "(" \o ArgText(d) \o ");"

Decls ==
    {[variant |-> v, ret |-> r, func |-> f, layout |-> l, form |-> "list", frags |-> a] :
        v \in Variants, r \in RetTypes, f \in FuncNames, l \in Layouts,
        a \in UNION {[1..n -> Frags] : n \in 1..MaxArgs}}
    \cup
    {[variant |-> v, ret |-> r, func |-> f, layout |-> l, form |-> w, frags |-> <<>>] :
        v \in Variants, r \in RetTypes, f \in FuncNames, l \in Layouts, w \in VoidForms}

\* main() not running
MainOff ==
    /\ tree = <<>> /\ pc = "off" /\ run = 0 /\ idx = 0
    /\ syscalls = <<>> /\ invocations = <<>> /\ ids = <<>>
    /\ table_entries = <<>> /\ handlers = <<>> /\ pending = <<>>
    /\ dispatch = [exists |-> FALSE, data |-> ""]
    /\ stdout = "" /\ stderr = "" /\ outdir = FALSE
    /\ outfiles = <<>> /\ opened = FALSE /\ madedirs = FALSE
    /\ written = {} /\ before = <<>>

InitFn ==
    /\ decl \in Decls
    /\ text = DeclText(decl)
    /\ matches = <<>>
    /\ result = [ok |-> FALSE]
    /\ fpc = "text"
    /\ MainOff

\* api_regex.finditer(fp.read())
Extract ==
    /\ fpc = "text"
    /\ matches' = finditer(text)
    /\ fpc' = "matched"
    /\ UNCHANGED <<decl, text, result, mainvars>>

\* analyze_fn(mo.groups(), fn) for the match found
Analyze ==
    /\ fpc = "matched"
    /\ matches # <<>>
    /\ result' = analyze_fn(matches[1], "decl.h")
    /\ fpc' = "analyzed"
    /\ UNCHANGED <<decl, text, matches, mainvars>>

NextFn == Extract \/ Analyze

SpecFn == InitFn /\ [][NextFn]_vars

(***************************************************************************)
(* The include trees main() is run on, and the output directory it finds.  *)
(***************************************************************************)
HeaderFiles ==
    {[dir |-> "include", fn |-> "foo.h",
      text |-> "__syscall int zed(int a);\n__syscall_inline void baz(void);\n"],
     [dir |-> "include/sub", fn |-> "foo.h",
      text |-> "__syscall int bar(int a, void *b);\n"],
     [dir |-> "include", fn |-> "bar.h",
      text |-> "__syscall int bar(int a, void *b);\n"],
     [dir |-> "include", fn |-> "bad.h",
      text |-> "__syscall void ok(void);\n__syscall int arr(int a[5]);\n"],
     [dir |-> "include/toolchain", fn |-> "common.h",
      text |-> "__syscall int hidden(void);\n"],
     [dir |-> "include", fn |-> "notes.txt",
      text |-> "__syscall int txt(void);\n"],
     [dir |-> "include", fn |-> "empty.h",
      text |-> "int x;\n"]}

FileNames == {f.fn : f \in HeaderFiles}

\* os.walk visits each file once, in an order of the file system's
Trees ==
    UNION {{t \in [1..n -> HeaderFiles] : \A i, j \in 1..n : i # j => t[i] # t[j]} :
              n \in 0..MaxFiles}

NoFile == [exists |-> FALSE, data |-> ""]
OldFile == [exists |-> TRUE, data |-> "/* old */\n"]

\* the dispatch file, the output directory and its files before the first run
FileSystems ==
    {[dispatch |-> NoFile, outdir |-> FALSE, outfiles |-> [n \in FileNames |-> NoFile]],
     [dispatch |-> OldFile, outdir |-> TRUE,
      outfiles |-> [n \in FileNames |-> IF n = "foo.h" THEN OldFile ELSE NoFile]]}

(***************************************************************************)
(* The templates.                                                          *)
(***************************************************************************)
table_template(weak_defines, entries) ==
    "/* auto-generated by gen_syscalls.py, don't edit */\n"
       \o "\n"
       \o "/* Weak handler functions that get replaced by the real ones unles a system\n"
       \o " * call is not implemented due to kernel configuration\n"
       \o " */\n"
    \o weak_defines
    \o "\n"
       \o "\n"
       \o "const _k_syscall_handler_t _k_syscall_table[K_SYSCALL_LIMIT] = {\n"
       \o "\t"
    \o entries
    \o "\n"
       \o "};\n"

list_template(enum_ids, handler_defines) ==
    "\n"
       \o "/* auto-generated by gen_syscalls.py, don't edit */\n"
       \o "#ifndef _ZEPHYR_SYSCALL_LIST_H_\n"
       \o "#define _ZEPHYR_SYSCALL_LIST_H_\n"
       \o "\n"
       \o "#ifndef _ASMLANGUAGE\n"
       \o "\n"
       \o "#ifdef __cplusplus\n"
       \o "extern \"C\" {\n"
       \o "#endif\n"
       \o "\n"
       \o "enum {\n"
       \o "\t"
    \o enum_ids
    \o "\n"
       \o "};\n"
       \o "\n"
    \o handler_defines
    \o "\n"
       \o "\n"
       \o "#ifdef __cplusplus\n"
       \o "}\n"
       \o "#endif\n"
       \o "\n"
       \o "#endif /* _ASMLANGUAGE */\n"
       \o "\n"
       \o "#endif /* _ZEPHYR_SYSCALL_LIST_H_ */\n"

syscall_template(invocation_text) ==
    "\n"
       \o "/* auto-generated by gen_syscalls.py, don't edit */\n"
       \o "\n"
       \o "#ifndef _ASMLANGUAGE\n"
       \o "\n"
       \o "#include <syscall_list.h>\n"
       \o "#include <syscall_macros.h>\n"
       \o "\n"
       \o "#ifdef __cplusplus\n"
       \o "extern \"C\" {\n"
       \o "#endif\n"
       \o "\n"
    \o invocation_text
    \o "\n"
       \o "\n"
       \o "#ifdef __cplusplus\n"
       \o "}\n"
       \o "#endif\n"
       \o "\n"
       \o "#endif\n"

handler_template(name) ==
    "\n"
       \o "extern u32_t "
    \o name
    \o "(u32_t arg1, u32_t arg2, u32_t arg3,\n"
       \o "                u32_t arg4, u32_t arg5, u32_t arg6, void *ssf);\n"

weak_template(name) ==
    "\n"
       \o "__weak ALIAS_OF(_handler_no_syscall)\n"
       \o "u32_t "
    \o name
    \o "(u32_t arg1, u32_t arg2, u32_t arg3,\n"
       \o "         u32_t arg4, u32_t arg5, u32_t arg6, void *ssf);\n"

(***************************************************************************)
(* analyze_headers                                                         *)
(***************************************************************************)
\* os.path.join(root, fn)
PathOf(file) == file.dir \o "/" \o file.fn

\* the files the walk passes over
Skipped(file) ==
    ~EndsWith(file.fn, ".h") \/ EndsWith(PathOf(file), "toolchain/common.h")

\* [analyze_fn(mo.groups(), fn) for mo in api_regex.finditer(fp.read())]
AnalyzeEach(groups, fn) ==
    Only({UpToFirstFailure(outcomes) :
             outcomes \in {[i \in 1..Len(groups) |-> analyze_fn(groups[i], fn)]}})

\* the with block for one file if a declaration that raises were passed over
AnalyzeFile_PassOver(file) ==
    Only({[ok |-> TRUE, records |-> SelectSeq(outcome, LAMBDA r : r.ok)] :
             outcome \in {AnalyzeEach(finditer(file.text), file.fn)}})

\* the with block for one file: its records, or the exception it lets through
AnalyzeFile(file) ==
    Only({IF outcome # <<>> /\ ~outcome[Len(outcome)].ok
          THEN [ok |-> FALSE,
                stderr |-> outcome[Len(outcome)].stderr
                              \o "While parsing " \o file.fn \o "\n"]
          ELSE [ok |-> TRUE, records |-> outcome] :
             outcome \in {AnalyzeEach(finditer(file.text), file.fn)}})

(***************************************************************************)
(* main                                                                    *)
(***************************************************************************)
\* the dict if each record's invocation took the place of the list of its fn
AddInvocation_Replace(dict, fn, inv) ==
    IF \E i \in 1..Len(dict) : dict[i].fn = fn
    THEN [i \in 1..Len(dict) |->
             IF dict[i].fn = fn THEN [dict[i] EXCEPT !.invs = <<inv>>] ELSE dict[i]]
    ELSE Append(dict, [fn |-> fn, invs |-> <<inv>>])

\* invocations[fn].append(inv), after invocations[fn] = [] for a new fn
AddInvocation(dict, fn, inv) ==
    IF \E i \in 1..Len(dict) : dict[i].fn = fn
    THEN [i \in 1..Len(dict) |->
             IF dict[i].fn = fn THEN [dict[i] EXCEPT !.invs = Append(@, inv)] ELSE dict[i]]
    ELSE Append(dict, [fn |-> fn, invs |-> <<inv>>])

\* the dict after the loop over syscalls: upto[i] is the dict after i records
Grouped(records) ==
    LET upto[i \in 0..Len(records)] ==
            IF i = 0 THEN <<>>
            ELSE Only({AddInvocation(d, records[i].fn, records[i].invocation) :
                          d \in {upto[i - 1]}})
    IN  upto[Len(records)]

\* the weak declarations if each name were declared at its first place only
WeakDefines_Distinct(names) ==
    join("", [i \in 1..Len(names) |->
                 IF \E j \in 1..(i - 1) : names[j] = names[i] THEN ""
                 ELSE weak_template(names[i])])

\* "".join([weak_template % name for name in handlers])
WeakDefines(names) ==
    join("", [i \in 1..Len(names) |-> weak_template(names[i])])

\* "".join([handler_template % name for name in handlers])
HandlerDefines(names) ==
    join("", [i \in 1..Len(names) |-> handler_template(names[i])])

BadEntry == "[K_SYSCALL_BAD] = _handler_bad_syscall"

\* the identifiers if the two last ones were appended before the sort
ListingIds_SortLast(unsorted) == sort(unsorted \o <<"K_SYSCALL_BAD", "K_SYSCALL_LIMIT">>)

\* ids.sort(); ids.extend(["K_SYSCALL_BAD", "K_SYSCALL_LIMIT"])
ListingIds(unsorted) == sort(unsorted) \o <<"K_SYSCALL_BAD", "K_SYSCALL_LIMIT">>

\* syscall_template % "\n\n".join(invo_list)
HeaderText(invo_list) == syscall_template(join("\n\n", invo_list))

\* the header written whatever is there
MustWrite_Always(file, header) == TRUE

\* whether the header is opened for writing: no file there, or other data in it
MustWrite(file, header) == ~file.exists \/ file.data # header

\* the state in which the first run of main() starts
StartRun(fs) ==
    /\ run = 1
    /\ pc = "walk"
    /\ idx = 0
    /\ syscalls = <<>> /\ invocations = <<>> /\ ids = <<>>
    /\ table_entries = <<>> /\ handlers = <<>> /\ pending = <<>>
    /\ dispatch = fs.dispatch /\ outdir = fs.outdir /\ outfiles = fs.outfiles
    /\ stdout = "" /\ stderr = ""
    /\ opened = FALSE /\ madedirs = FALSE /\ written = {}
    /\ before = [dispatch |-> fs.dispatch, outdir |-> fs.outdir,
                 outfiles |-> fs.outfiles, stdout |-> ""]

FnOff ==
    /\ decl = <<>> /\ text = "" /\ matches = <<>>
    /\ result = [ok |-> FALSE] /\ fpc = "off"

Init ==
    /\ tree \in Trees
    /\ \E fs \in FileSystems : StartRun(fs)
    /\ FnOff

\* the walk passes over a file that is no header, or is toolchain/common.h
SkipFile ==
    /\ pc = "walk" /\ idx < Len(tree)
    /\ Skipped(tree[idx + 1])
    /\ idx' = idx + 1
    /\ UNCHANGED <<tree, pc, run, syscalls, invocations, ids, table_entries, handlers,
                   pending, dispatch, stdout, stderr, outdir, outfiles, opened,
                   madedirs, written, before, fnvars>>

\* ret.extend(result) for a file whose declarations are all analyzed
ReadFile ==
    /\ pc = "walk" /\ idx < Len(tree)
    /\ ~Skipped(tree[idx + 1])
    /\ \E outcome \in {AnalyzeFile(tree[idx + 1])} :
          /\ outcome.ok
          /\ syscalls' = syscalls \o outcome.records
    /\ idx' = idx + 1
    /\ UNCHANGED <<tree, pc, run, invocations, ids, table_entries, handlers,
                   pending, dispatch, stdout, stderr, outdir, outfiles, opened,
                   madedirs, written, before, fnvars>>

\* a declaration of the file raises: the exception ends main()
FailFile ==
    /\ pc = "walk" /\ idx < Len(tree)
    /\ ~Skipped(tree[idx + 1])
    /\ \E outcome \in {AnalyzeFile(tree[idx + 1])} :
          /\ ~outcome.ok
          /\ stderr' = stderr \o outcome.stderr
    /\ pc' = "failed"
    /\ UNCHANGED <<tree, run, idx, syscalls, invocations, ids, table_entries, handlers,
                   pending, dispatch, stdout, outdir, outfiles, opened,
                   madedirs, written, before, fnvars>>

\* analyze_headers returns; the loop over syscalls fills the four collections
Collect ==
    /\ pc = "walk" /\ idx = Len(tree)
    /\ invocations' = Grouped(syscalls)
    /\ ids' = [i \in 1..Len(syscalls) |-> syscalls[i].sys_id]
    /\ table_entries' = [i \in 1..Len(syscalls) |-> syscalls[i].table_entry]
    /\ handlers' = [i \in 1..Len(syscalls) |-> syscalls[i].handler]
    /\ pc' = "dispatch"
    /\ UNCHANGED <<tree, run, idx, syscalls, pending, dispatch, stdout, stderr,
                   outdir, outfiles, opened, madedirs, written, before, fnvars>>

\* the with block that writes the dispatch table
WriteDispatch ==
    /\ pc = "dispatch"
    /\ opened' = TRUE
    /\ table_entries' = Append(table_entries, BadEntry)
    /\ dispatch' = [exists |-> TRUE,
                    data |-> table_template(WeakDefines(handlers),
                                            join(",\n\t", table_entries'))]
    /\ pc' = "listing"
    /\ UNCHANGED <<tree, run, idx, syscalls, invocations, ids, handlers, pending,
                   stdout, stderr, outdir, outfiles, madedirs, written, before, fnvars>>

\* the listing header, on stdout
WriteListing ==
    /\ pc = "listing"
    /\ ids' = ListingIds(ids)
    /\ stdout' = stdout \o list_template(join(",\n\t", ids'), HandlerDefines(handlers))
    /\ pc' = "makedirs"
    /\ UNCHANGED <<tree, run, idx, syscalls, invocations, table_entries, handlers,
                   pending, dispatch, stderr, outdir, outfiles, opened, madedirs,
                   written, before, fnvars>>

\* os.makedirs(args.base_output, exist_ok=True), and the last loop begins
MakeDirs ==
    /\ pc = "makedirs"
    /\ outdir' = TRUE
    /\ madedirs' = TRUE
    /\ pending' = invocations
    /\ pc' = "headers"
    /\ UNCHANGED <<tree, run, idx, syscalls, invocations, ids, table_entries, handlers,
                   dispatch, stdout, stderr, outfiles, opened, written, before, fnvars>>

\* one turn of the last loop that ends in fp.write(header)
WriteHeader ==
    /\ pc = "headers" /\ pending # <<>>
    /\ LET fn == pending[1].fn
           header == HeaderText(pending[1].invs)
       IN  /\ MustWrite(outfiles[fn], header)
           /\ outfiles' = [outfiles EXCEPT ![fn] = [exists |-> TRUE, data |-> header]]
           /\ written' = written \cup {fn}
    /\ pending' = Tail(pending)
    /\ UNCHANGED <<tree, pc, run, idx, syscalls, invocations, ids, table_entries,
                   handlers, dispatch, stdout, stderr, outdir, opened, madedirs,
                   before, fnvars>>

\* one turn of the last loop that ends in continue
KeepHeader ==
    /\ pc = "headers" /\ pending # <<>>
    /\ ~MustWrite(outfiles[pending[1].fn], HeaderText(pending[1].invs))
    /\ pending' = Tail(pending)
    /\ UNCHANGED <<tree, pc, run, idx, syscalls, invocations, ids, table_entries,
                   handlers, dispatch, stdout, stderr, outdir, outfiles, opened,
                   madedirs, written, before, fnvars>>

\* main() returns
Finish ==
    /\ pc = "headers" /\ pending = <<>>
    /\ pc' = "done"
    /\ UNCHANGED <<tree, run, idx, syscalls, invocations, ids, table_entries, handlers,
                   pending, dispatch, stdout, stderr, outdir, outfiles, opened,
                   madedirs, written, before, fnvars>>

\* the generator is run again on the same tree with the same output targets
RunAgain ==
    /\ pc \in {"done", "failed"}
    /\ run < MaxRuns
    /\ run' = run + 1
    /\ pc' = "walk"
    /\ idx' = 0
    /\ syscalls' = <<>> /\ invocations' = <<>> /\ ids' = <<>>
    /\ table_entries' = <<>> /\ handlers' = <<>> /\ pending' = <<>>
    /\ stdout' = "" /\ stderr' = ""
    /\ opened' = FALSE /\ madedirs' = FALSE /\ written' = {}
    /\ before' = [dispatch |-> dispatch, outdir |-> outdir,
                  outfiles |-> outfiles, stdout |-> stdout]
    /\ UNCHANGED <<tree, dispatch, outdir, outfiles, fnvars>>

Next ==
    \/ SkipFile \/ ReadFile \/ FailFile \/ Collect
    \/ WriteDispatch \/ WriteListing \/ MakeDirs
    \/ WriteHeader \/ KeepHeader \/ Finish \/ RunAgain

Spec == Init /\ [][Next]_vars

(***************************************************************************)
(* Properties of main(), under Spec.                                       *)
(***************************************************************************)
\* the text of s between the first `open` and the first `close` after it
Between(s, open, close) ==
    Only({Slice(s, a + Len(open), Find(s, close, a + Len(open)) - 1) :
             a \in {Find(s, open, 1)}})

\* how many times t occurs in s
Count(s, t) == Cardinality({i \in 1..Len(s) : Slice(s, i, i + Len(t) - 1) = t})

\* how many elements of the list q equal x
Times(q, x) == Cardinality({i \in 1..Len(q) : q[i] = x})

\* the records of one origin file name, in the order of the aggregated list
RecordsOf(fn) == SelectSeq(syscalls, LAMBDA r : r.fn = fn)

\* some declaration matched in a scanned file raises
DeclarationFails ==
    \E i \in 1..Len(tree) :
        /\ ~Skipped(tree[i])
        /\ \E groups \in {finditer(tree[i].text)} :
              \E k \in 1..Len(groups) : ~analyze_fn(groups[k], tree[i].fn).ok

\* C1: when a matched declaration of a scanned file raises, the run never gets
\* past the walk: it ends in the exception, with its diagnostics on stderr,
\* and in no state of the run is the dispatch file opened or changed, anything
\* on stdout, the output directory made or a header written.
C1_FailFast ==
    DeclarationFails =>
        /\ pc \in {"walk", "failed"}
        /\ pc = "walk" => idx < Len(tree)
        /\ pc = "failed" => Find(stderr, "In declaration of ", 1) > 0
                            /\ Find(stderr, "While parsing ", 1) > 0
        /\ ~opened /\ dispatch = before.dispatch
        /\ stdout = ""
        /\ ~madedirs /\ outdir = before.outdir
        /\ written = {} /\ outfiles = before.outfiles

\* the run ends in the exception after the records of an earlier file were taken
C1_Witness ==
    /\ pc = "failed"
    /\ syscalls # <<>>
    /\ DeclarationFails
    /\ ~opened /\ stdout = "" /\ ~madedirs

\* C2: a run that follows a run on the same tree and the same targets ends
\* with the dispatch text and the listing text of the run before it and
\* without a header written; and in every run that ends, a header is written
\* exactly when no file was there or the file's data was not the rendered text.
C2_Idempotent ==
    pc = "done" =>
        /\ run >= 2 =>
              /\ dispatch.data = before.dispatch.data
              /\ stdout = before.stdout
              /\ written = {}
              /\ outfiles = before.outfiles
        /\ \A k \in 1..Len(invocations) :
              LET old == before.outfiles[invocations[k].fn]
                  rendered == syscall_template(join("\n\n", invocations[k].invs))
              IN  invocations[k].fn \in written <=> (~old.exists \/ old.data # rendered)

\* a second run that ends, with headers to render, and writes none
C2_Witness ==
    /\ pc = "done" /\ run = 2
    /\ Len(invocations) = 2
    /\ written = {}
    /\ dispatch.data = before.dispatch.data /\ stdout = before.stdout

\* the identifiers of the enumeration of the listing, as written on stdout
EnumOpen == "enum {\n\t"
EnumClose == "\n};"
Emitted == split(Between(stdout, EnumOpen, EnumClose), ",\n\t")

\* C3: the enumeration of the listing is the identifiers of the records, each
\* as often as there are records of it, in ascending order, and then
\* K_SYSCALL_BAD and K_SYSCALL_LIMIT in the last two places; as a set it is
\* the identifiers of the records and these two.
C3_Listing ==
    pc \in {"makedirs", "headers", "done"} =>
        \E emitted \in {Emitted} :
            LET n == Len(syscalls)
                recordIds == {"K_SYSCALL_" \o upper(syscalls[i].func_name) : i \in 1..n}
            IN  /\ Len(emitted) = n + 2
                /\ emitted[n + 1] = "K_SYSCALL_BAD"
                /\ emitted[n + 2] = "K_SYSCALL_LIMIT"
                /\ \A i \in 1..(n - 1) : ~StrLess(emitted[i + 1], emitted[i])
                /\ \A id \in recordIds :
                      Times(SubSeq(emitted, 1, n), id)
                         = Times([i \in 1..n |-> syscalls[i].sys_id], id)
                /\ {emitted[i] : i \in 1..n} = recordIds
                /\ {emitted[i] : i \in 1..(n + 2)}
                      = recordIds \cup {"K_SYSCALL_BAD", "K_SYSCALL_LIMIT"}

\* records taken in the order zed, baz are listed as BAZ, ZED, BAD, LIMIT
C3_Witness ==
    /\ pc = "done"
    /\ [i \in 1..Len(syscalls) |-> syscalls[i].func_name] = <<"zed", "baz">>
    /\ Emitted = <<"K_SYSCALL_BAZ", "K_SYSCALL_ZED", "K_SYSCALL_BAD", "K_SYSCALL_LIMIT">>

\* the weak declaration of a handler, up to its parameter list
WeakOf(h) == "__weak ALIAS_OF(_handler_no_syscall)\nu32_t " \o h \o "("

\* the entries of the table literal, as written to the dispatch file
TableOpen == "_k_syscall_table[K_SYSCALL_LIMIT] = {\n\t"
TableClose == "\n};"
TableLiteral == split(Between(dispatch.data, TableOpen, TableClose), ",\n\t")

\* the entries of the records, then the one of K_SYSCALL_BAD, make the table
TableIsEntriesThenBad ==
    TableLiteral =
        [i \in 1..Len(syscalls) |->
            "[K_SYSCALL_" \o upper(syscalls[i].func_name) \o "] = _handler_"
                \o syscalls[i].func_name]
        \o <<"[K_SYSCALL_BAD] = _handler_bad_syscall">>

\* C4 (as claimed): the dispatch file has exactly one weak declaration for
\* each distinct handler of the records, also when records share a handler,
\* and its table is the records' entries followed by the one sentinel entry.
C4_OnePerHandler ==
    opened =>
        /\ \A i \in 1..Len(syscalls) :
              Count(dispatch.data, WeakOf("_handler_" \o syscalls[i].func_name)) = 1
        /\ Count(dispatch.data, "__weak ") = Cardinality({syscalls[i].func_name : i \in 1..Len(syscalls)})
        /\ TableIsEntriesThenBad

\* C4 (amended): the dispatch file has one weak declaration for each record,
\* in the records' order, so that a handler shared by k records is declared
\* k times; its table is the records' entries followed by the one sentinel
\* entry, which is last.
C4_OnePerRecord ==
    opened =>
        /\ \A i \in 1..Len(syscalls) :
              Count(dispatch.data, WeakOf("_handler_" \o syscalls[i].func_name))
                 = Times([j \in 1..Len(syscalls) |-> syscalls[j].func_name],
                         syscalls[i].func_name)
        /\ Count(dispatch.data, "__weak ") = Len(syscalls)
        /\ TableIsEntriesThenBad
        /\ Times(TableLiteral, "[K_SYSCALL_BAD] = _handler_bad_syscall") = 1

\* bar is declared in two files: two records, two weak declarations of its handler
C4_Witness ==
    /\ pc = "done"
    /\ [i \in 1..Len(syscalls) |-> syscalls[i].func_name] = <<"bar", "bar">>
    /\ Count(dispatch.data, WeakOf("_handler_bar")) = 2
    /\ Len(TableLiteral) = 3

\* the invocation texts of a header, between the two parts of its envelope
BodyOpen == "extern \"C\" {\n#endif\n\n"
BodyClose == "\n\n#ifdef __cplusplus\n}"
HeaderBody(data) == split(Between(data, BodyOpen, BodyClose), "\n\n")

\* C9: when a run has ended, each file name with records has a header in the
\* output directory that holds the invocations of the records of that name,
\* each once, in the order of the aggregated list, and nothing of other
\* records; a file name without records gets no header from the run.
C9_Grouping ==
    pc = "done" =>
        \A fn \in FileNames :
            \E records \in {RecordsOf(fn)} :
                IF records # <<>>
                THEN /\ outdir
                     /\ outfiles[fn].exists
                     /\ HeaderBody(outfiles[fn].data)
                           = [i \in 1..Len(records) |-> records[i].invocation]
                ELSE /\ fn \notin written
                     /\ outfiles[fn] = before.outfiles[fn]

\* two files of one name in two directories, one header with the three invocations
C9_Witness ==
    /\ pc = "done"
    /\ Len(tree) = 2 /\ tree[1].dir = "include" /\ tree[2].dir = "include/sub"
    /\ Len(RecordsOf("foo.h")) = 3
    /\ Len(HeaderBody(outfiles["foo.h"].data)) = 3
    /\ ~outfiles["bar.h"].exists

(***************************************************************************)
(* Properties of the analyzer, under SpecFn.                               *)
(***************************************************************************)
Analyzed == fpc = "analyzed"

\* the return-type-and-name text and the argument-list text of the match
FuncGroup == matches[1][2]
ArgGroup == matches[1][3]

\* the argument fragments: the pieces between commas, trimmed
Fragments ==
    LET pieces == split(ArgGroup, ",")
    IN  [i \in 1..Len(pieces) |-> strip(pieces[i])]

HasBracket(f) == Contains(f, "[")
HasParen(f) == Contains(f, "(")
NoTrailingIdent(f) == f = "" \/ Char(f, Len(f)) \notin IdentChars
\* f is some text without a line break followed by a run of identifier characters
SplitsAsTypeName(f) ==
    \E k \in 0..(Len(f) - 1) :
        /\ \A m \in (k + 1)..Len(f) : Char(f, m) \in IdentChars
        /\ \A m \in 1..k : Char(f, m) # "\n"
Rejected(f) == HasBracket(f) \/ HasParen(f) \/ ~SplitsAsTypeName(f)

RefersToArrays(e) == Find(e, "arrays", 1) > 0
RefersToFunctionPointers(e) == Find(e, "function pointers", 1) > 0

\* the number of (type, name) pairs among a record's tokens
PairsOf(r) == (Len(r.flat_args) - 2 - (IF r.func_type = "void" THEN 0 ELSE 1)) \div 2

\* the number written after K_SYSCALL_DECLARE, and what follows it
DeclarePrefix == "K_SYSCALL_DECLARE"
ArityEnd(macro) ==
    LET from == Len(DeclarePrefix) + 1
        digits == {k \in from..Len(macro) : \A m \in from..k : Contains(Digits, Char(macro, m))}
    IN  Len(DeclarePrefix) + Cardinality(digits)
RECURSIVE ParseNat(_)
ParseNat(s) ==
    IF s = "" THEN 0
    ELSE 10 * ParseNat(Slice(s, 1, Len(s) - 1)) + (Find(Digits, Char(s, Len(s)), 1) - 1)
ArityOf(macro) == ParseNat(Slice(macro, Len(DeclarePrefix) + 1, ArityEnd(macro)))
SuffixOf(macro) == Slice(macro, ArityEnd(macro) + 1, Len(macro))

\* C5 (as claimed): when the return type and name are accepted, an argument
\* list that is "void" once trimmed gives a record with zero arguments (macro
\* arity 0, no argument tokens), and no other argument list does.
C5_ZeroArgMarker ==
    Analyzed /\ typename_split(FuncGroup).ok =>
        IF strip(ArgGroup) = "void"
        THEN /\ result.ok
             /\ result.args = <<>>
             /\ ArityOf(result.macro) = 0
             /\ PairsOf(result) = 0
        ELSE ~(result.ok /\ result.args = <<>>)

\* C6 (as claimed): a declaration with a fragment that has "[" fails with the
\* array message; one with a fragment that has "(" and no "[" fails with the
\* function-pointer message; one with a fragment without a trailing
\* identifier run fails; no record in any of these cases.
C6_Original ==
    Analyzed =>
        /\ (\E i \in DOMAIN Fragments : HasBracket(Fragments[i]))
              => (~result.ok /\ RefersToArrays(result.error))
        /\ ((\E i \in DOMAIN Fragments : HasParen(Fragments[i]))
               /\ (\A i \in DOMAIN Fragments : ~HasBracket(Fragments[i])))
              => (~result.ok /\ RefersToFunctionPointers(result.error))
        /\ (\E i \in DOMAIN Fragments : NoTrailingIdent(Fragments[i]))
              => ~result.ok

\* C6 (amended): the analysis fails with the error of the first fragment, in
\* order, that is rejected: the array message when that fragment has "[",
\* else the function-pointer message when it has "(", else the malformed
\* message; no record is produced.
C6_FirstRejected ==
    Analyzed /\ ArgGroup # "void"
             /\ (\E i \in DOMAIN Fragments : Rejected(Fragments[i])) =>
        LET i == CHOOSE k \in DOMAIN Fragments :
                    /\ Rejected(Fragments[k])
                    /\ \A m \in 1..(k - 1) : ~Rejected(Fragments[m])
            f == Fragments[i]
        IN  /\ ~result.ok
            /\ IF HasBracket(f)
               THEN RefersToArrays(result.error) /\ Find(result.error, f, 1) > 0
               ELSE IF HasParen(f) THEN RefersToFunctionPointers(result.error)
               ELSE result.error = MalformedMessage

\* an array fragment behind a fragment without a name: the error is the first one's
C6_Witness ==
    /\ Analyzed
    /\ Fragments = <<"int *", "int a[5]">>
    /\ ~result.ok
    /\ result.error = MalformedMessage

\* C7: the tokens of a record are K_SYSCALL_<NAME>, name, the return type
\* unless it is "void", then each argument's type and name in order, joined
\* by ", " inside <macro>( ... ); the handler is _handler_<name> and the
\* dispatch entry [K_SYSCALL_<NAME>] = _handler_<name>. The name and return
\* type are the ones written; so are the arguments of a list and of "void".
C7_Tokens ==
    Analyzed /\ result.ok =>
        LET f == decl.func.name
            r == decl.ret
            id == "K_SYSCALL_" \o decl.func.upper
            pairs == IF decl.form = "list"
                     THEN [i \in 1..Len(decl.frags) |-> <<decl.frags[i].t, decl.frags[i].p>>]
                     ELSE IF decl.form = "void" THEN <<>>
                     ELSE [i \in 1..Len(result.args) |-> <<result.args[i].type, result.args[i].name>>]
            expected == [i \in 1..(2 * Len(pairs)) |-> pairs[(i + 1) \div 2][2 - (i % 2)]]
            tokens == <<id, f>> \o (IF r = "void" THEN <<>> ELSE <<r>>) \o expected
        IN  /\ result.flat_args = tokens
            /\ result.invocation = result.macro \o "(" \o join(", ", tokens) \o ");"
            /\ result.sys_id = id
            /\ result.handler = "_handler_" \o f
            /\ result.table_entry = "[" \o id \o "] = _handler_" \o f

\* the scenario of the specification: __syscall int bar(int a, void *b)
C7_Witness ==
    /\ Analyzed
    /\ text = "__syscall int bar(int a, void *b);"
    /\ result.ok
    /\ result.invocation = "K_SYSCALL_DECLARE2(K_SYSCALL_BAR, bar, int, int, a, void *, b);"
    /\ result.table_entry = "[K_SYSCALL_BAR] = _handler_bar"

\* C8: the macro name is K_SYSCALL_DECLARE<n>, with _VOID exactly when the
\* return type is "void" and _INLINE exactly when the annotation is
\* syscall_inline; n is the number of (type, name) pairs among the tokens;
\* and no other triple (n, is_void, variant) up to MaxArity has that name.
C8_MacroName ==
    Analyzed /\ result.ok =>
        /\ Slice(result.macro, 1, Len(DeclarePrefix)) = DeclarePrefix
        /\ ArityOf(result.macro) = PairsOf(result)
        /\ SuffixOf(result.macro) =
              (IF decl.ret = "void" THEN "_VOID" ELSE "")
                 \o (IF decl.variant = "syscall_inline" THEN "_INLINE" ELSE "")
        /\ \A n \in 0..MaxArity, v \in BOOLEAN, k \in Variants :
              MacroName(n, v, k) = result.macro
                 <=> (n = PairsOf(result) /\ v = (decl.ret = "void") /\ k = decl.variant)

\* the scenario of the specification: __syscall_inline void baz(void), here bar
C8_Witness ==
    /\ Analyzed
    /\ text = "__syscall_inline void bar(void);"
    /\ result.ok
    /\ result.macro = "K_SYSCALL_DECLARE0_VOID_INLINE"

\* C10 (as claimed): however the white space between the annotation, the
\* return type, the name and the parenthesis is laid out, the declaration is
\* one match, and when the same declaration on one line with single spaces
\* gives a record, this one gives the same record.
C10_MultiLine ==
    Analyzed =>
        LET single == finditer(DeclText([decl EXCEPT !.layout = SingleLine]))
            canon == analyze_fn(single[1], "decl.h")
        IN  /\ Len(matches) = 1
            /\ canon.ok =>
                  /\ result.ok
                  /\ <<result.sys_id, result.handler, result.macro, result.flat_args>>
                        = <<canon.sys_id, canon.handler, canon.macro, canon.flat_args>>

====
